---- MODULE Spec2Model ----
(***************************************************************************)
(* The badge record store of the CustomBadges plugin (src/index.tsx, the   *)
(* DataStore-backed revision, lines 230-658): the persisted DataStore, the *)
(* in-memory TTL cache, loadUserBadges with its legacy-key migration,      *)
(* saveUserBadges, plugin start and the BadgeSettings editor.              *)
(*                                                                         *)
(* Execution model.  The program is single-threaded JavaScript.  An async  *)
(* function runs synchronously up to its next `await DataStore.x(...)`;    *)
(* one step of the model is the completion of one awaited DataStore        *)
(* operation (its effect on the store, or its failure) together with the   *)
(* continuation that runs up to the next await.  Continuations of awaited  *)
(* promises are microtasks, so a caller's continuation after               *)
(* `await loadUserBadges(..)` belongs to the same step.                    *)
(*                                                                         *)
(* Badge objects are JavaScript objects: arrays hold references.  The      *)
(* model keeps a heap of badge objects; badgeCache, userBadges, the        *)
(* editor's `badges` state and call arguments hold sequences of            *)
(* references.  DataStore (IndexedDB) stores structured clones, i.e.       *)
(* values, taken when DataStore.set is called.                             *)
(***************************************************************************)
EXTENDS Integers, Sequences, FiniteSets, TLC

VARIABLES
    now,              \* Date.now()
    dataStore,        \* DataStore: key -> optional value
    badgeCache,       \* badgeCache: Map<string, Badge[]>
    cacheTimestamps,  \* cacheTimestamps: Map<string, number>
    heap,             \* live Badge objects: reference -> {name, emoji, url}
    userBadges,       \* module variable userBadges (read by getBadges)
    calls,            \* async invocations of loadUserBadges / saveUserBadges
    ncalls,           \* number of invocations issued so far
    badges,           \* BadgeSettings state: badges
    loading,          \* BadgeSettings state: loading
    saveMessage,      \* BadgeSettings state: saveMessage
    hasUnsavedChanges,\* BadgeSettings state: hasUnsavedChanges
    mounted,          \* BadgeSettings has been mounted (its effect has run)
    timers,           \* pending setTimeout(() => setSaveMessage(""), 3000)
    nui,              \* number of editor events so far
    lastEvent,        \* the latest store event (observation only)
    settings,         \* settings.store of the settings-backed revision
    currentUser       \* UserStore.getCurrentUser()?.id (optional)

vars == <<now, dataStore, badgeCache, cacheTimestamps, heap, userBadges, calls,
          ncalls, badges, loading, saveMessage, hasUnsavedChanges, mounted,
          timers, nui, lastEvent, settings, currentUser>>

editorVars == <<badges, loading, saveMessage, hasUnsavedChanges, mounted, timers, nui>>

-----------------------------------------------------------------------------
(* Bounds of the model *)

MaxCalls == 2
MaxTicks == 3
StartTime == 1000

-----------------------------------------------------------------------------
(* Values *)

None == [has |-> FALSE]
Some(v) == [has |-> TRUE, val |-> v]

\* const CACHE_DURATION = 5 * 60 * 1000
CACHE_DURATION == 5 * 60 * 1000

\* the clock advances in steps of half a cache lifetime
TickMs == CACHE_DURATION \div 2
MaxNow == StartTime + MaxTicks * TickMs

\* userId: string
UserOrder == <<"A", "B">>
UserIds == {UserOrder[i] : i \in 1..Len(UserOrder)}

\* the DataStore keys
GlobalKey == "CustomBadges_GlobalStorage"
LegacyKey(userId) == "customBadges_" \o userId
Keys == {GlobalKey} \cup {LegacyKey(u) : u \in UserIds}

\* interface Badge { name; emoji; url }; an emoji is its sequence of code points
Badge(name, emoji, url) == [name |-> name, emoji |-> emoji, url |-> url]
BadgeX == Badge("X", <<>>, "https://a/b.png")
BadgeY == Badge("Y", <<127918>>, "")

\* record lists handed to saveUserBadges by a direct caller
SaveInputs == {<<>>, <<BadgeX, BadgeY>>}
\* record lists an older plugin version may have left under a legacy key
LegacyInputs == {<<BadgeY, BadgeX>>}

\* a GlobalBadgeStorage object: userId -> optional Badge[]
NoGlobal == [u \in UserIds |-> None]

-----------------------------------------------------------------------------
(* The heap of Badge objects: a sequence of objects, a reference is an     *)
(* index into it.                                                          *)

\* the values of a list of references (what a structured clone captures)
Deref(h, refs) == [i \in 1..Len(refs) |-> h[refs[i]]]

\* fresh objects for a list of values: the references
NewRefs(h, vals) == [i \in 1..Len(vals) |-> Len(h) + i]
\* ... and the heap holding them
Alloc(h, vals) == h \o vals

\* the distinct elements of a sequence, in the order of their first occurrence
RECURSIVE Dedup(_, _)
Dedup(s, acc) ==
    IF s = <<>> THEN acc
    ELSE IF \E i \in 1..Len(acc) : acc[i] = Head(s) THEN Dedup(Tail(s), acc)
    ELSE Dedup(Tail(s), Append(acc, Head(s)))

RECURSIVE Flatten(_)
Flatten(ss) == IF ss = <<>> THEN <<>> ELSE Head(ss) \o Flatten(Tail(ss))

-----------------------------------------------------------------------------
(* Calls *)

\* direct callers of loadUserBadges / saveUserBadges
Callers == {"c1", "c2"}
\* plugin start, the editor's mount effect, clicks on the Save button
UiCallers == {"start", "mount", "btn1", "btn2"}
ProcOrder == <<"c1", "c2", "start", "mount", "btn1", "btn2">>
Procs == Callers \cup UiCallers

\* pc: "idle"; "l_get", "l_getOld", "l_set", "l_del" (loadUserBadges awaiting
\* DataStore.get(global), get(legacy), set(global), del(legacy)); "s_get", "s_set"
\* (saveUserBadges awaiting get, set); "done" (settled, result not yet taken);
\* "end" (a one-shot caller has finished).  io: the invocation has issued a
\* DataStore operation.
IdleCall == [pc |-> "idle", op |-> "none", userId |-> "A",
             globalBadges |-> NoGlobal, oldBadges |-> <<>>,
             badges |-> <<>>, outcome |-> "none", result |-> <<>>, io |-> FALSE]

NoEvent == [kind |-> "none"]

\* definePluginSettings, lines 148-164: the defaults
DefaultSettings == [badges |-> <<>>, showOnSelf |-> TRUE, showOnOthers |-> FALSE]

\* the id of the account this client logs in with
LocalUser == "A"

\* userId === UserStore.getCurrentUser()?.id
IsCurrentUser(userId) == currentUser = Some(userId)

\* The store before the plugin starts: nothing, or the legacy key an older
\* version of the plugin wrote for the local user. The user is logged in, or
\* nobody is logged in yet.
Init ==
    /\ now = StartTime
    /\ \E leg \in {None} \cup {Some(l) : l \in LegacyInputs} :
          dataStore = [k \in Keys |-> IF k = LegacyKey(LocalUser) THEN leg ELSE None]
    /\ badgeCache = [u \in UserIds |-> None]
    /\ cacheTimestamps = [u \in UserIds |-> None]
    /\ heap = << >>
    /\ userBadges = <<>>
    /\ calls = [p \in Procs |-> IdleCall]
    /\ ncalls = 0
    /\ badges = <<>>
    /\ loading = TRUE
    /\ saveMessage = ""
    /\ hasUnsavedChanges = FALSE
    /\ mounted = FALSE
    /\ timers = 0
    /\ nui = 0
    /\ lastEvent = NoEvent
    /\ settings = DefaultSettings
    /\ currentUser \in {None, Some(LocalUser)}

-----------------------------------------------------------------------------
(* The program state as one record, so that the synchronous stretches of   *)
(* code compose as functions from state to state.                          *)

Cur == [now |-> now, dataStore |-> dataStore, badgeCache |-> badgeCache,
        cacheTimestamps |-> cacheTimestamps, heap |-> heap,
        userBadges |-> userBadges, calls |-> calls, badges |-> badges,
        loading |-> loading, saveMessage |-> saveMessage,
        hasUnsavedChanges |-> hasUnsavedChanges, timers |-> timers]

\* every list of references the program holds, in a fixed order
Roots(S) ==
    [i \in 1..Len(UserOrder) |->
        IF S.badgeCache[UserOrder[i]].has THEN S.badgeCache[UserOrder[i]].val ELSE <<>>]
    \o <<S.userBadges, S.badges>>
    \o [i \in 1..Len(ProcOrder) |-> S.calls[ProcOrder[i]].badges]
    \o [i \in 1..Len(ProcOrder) |-> S.calls[ProcOrder[i]].result]

\* The next state is S with the unreachable objects dropped and the reachable
\* ones renumbered in the order of Roots (object identity is kept, the
\* numbering of the references carries no meaning).
Commit(S) ==
    \E T \in {S} : \E ord \in {Dedup(Flatten(Roots(T)), <<>>)} :
    LET rank(o) == CHOOSE i \in 1..Len(ord) : ord[i] = o
        Ren(refs) == [i \in 1..Len(refs) |-> rank(refs[i])]
    IN  /\ now' = T.now
        /\ dataStore' = T.dataStore
        /\ badgeCache' = [u \in UserIds |->
                            IF T.badgeCache[u].has THEN Some(Ren(T.badgeCache[u].val))
                            ELSE None]
        /\ cacheTimestamps' = T.cacheTimestamps
        /\ userBadges' = Ren(T.userBadges)
        /\ calls' = [p \in Procs |->
                        [T.calls[p] EXCEPT !.badges = Ren(@), !.result = Ren(@)]]
        /\ badges' = Ren(T.badges)
        /\ loading' = T.loading
        /\ saveMessage' = T.saveMessage
        /\ hasUnsavedChanges' = T.hasUnsavedChanges
        /\ timers' = T.timers
        /\ heap' = [i \in 1..Len(ord) |-> T.heap[ord[i]]]

\* the default badges of start() and loadBadges()
DefaultBadges == << Badge("Gaming", <<127918>>, ""), Badge("Developer", <<128187>>, "") >>

\* the texts of saveMessage (string literals are ASCII: the leading check mark
\* and cross of the two results are left out)
MsgSaving == "Saving..."
MsgSaved == "Saved successfully!"
MsgFailed == "Save failed!"

EndCall == [IdleCall EXCEPT !.pc = "end"]

\* globalBadges[userId] || []
EntryOr(globalBadges, userId) ==
    IF globalBadges[userId].has THEN globalBadges[userId].val ELSE <<>>

\* await DataStore.get<GlobalBadgeStorage>("CustomBadges_GlobalStorage") || {}
GetGlobal(store) == IF store[GlobalKey].has THEN store[GlobalKey].val ELSE NoGlobal

\* badgeCache.set(userId, v); cacheTimestamps.set(userId, Date.now())
CachePut(S, userId, refs) ==
    [S EXCEPT !.badgeCache[userId] = Some(refs),
              !.cacheTimestamps[userId] = Some(S.now)]

-----------------------------------------------------------------------------
(* saveUserBadges, lines 341-364: the part before its first await *)

\* the call up to `await DataStore.get(...)`
SaveStart(S, p, userId, refs) ==
    [S EXCEPT !.calls[p] = [IdleCall EXCEPT !.pc = "s_get", !.op = "save",
                                            !.userId = userId, !.badges = refs,
                                            !.io = TRUE]]

\* globalBadges[userId] = badges
SaveMerge(globalBadges, userId, vals) ==
    [globalBadges EXCEPT ![userId] = Some(vals)]

\* a variant that fills the cache before the write: the get has resolved, the
\* cache already holds the records
SaveOnGet_CacheEarly(S, p) ==
    LET c == S.calls[p]
        merged == SaveMerge(GetGlobal(S.dataStore), c.userId, Deref(S.heap, c.badges))
    IN  CachePut([S EXCEPT !.calls[p] = [c EXCEPT !.pc = "s_set", !.globalBadges = merged]],
                 c.userId, c.badges)

\* the get has resolved: merge, and call DataStore.set with the merged object
SaveOnGet(S, p) ==
    LET c == S.calls[p]
        merged == SaveMerge(GetGlobal(S.dataStore), c.userId, Deref(S.heap, c.badges))
    IN  [S EXCEPT !.calls[p] = [c EXCEPT !.pc = "s_set", !.globalBadges = merged]]

-----------------------------------------------------------------------------
(* What the caller does when its invocation settles *)

\* a direct caller: the settled promise is kept until its result is taken
SettleDirect(S, p, out, res) ==
    [S EXCEPT !.calls[p] = [IdleCall EXCEPT !.pc = "done", !.op = S.calls[p].op,
                                            !.userId = S.calls[p].userId,
                                            !.badges = S.calls[p].badges,
                                            !.outcome = out, !.result = res,
                                            !.io = S.calls[p].io]]

\* start(), lines 611-631: after `await loadUserBadges`, after `await saveUserBadges`
SettleStart(S, p, out, res) ==
    IF S.calls[p].op = "load" /\ out = "returned" /\ Len(res) = 0
    THEN LET defaultBadges == NewRefs(S.heap, DefaultBadges)
         IN  SaveStart([S EXCEPT !.heap = Alloc(S.heap, DefaultBadges),
                                 !.userBadges = defaultBadges],
                       p, S.calls[p].userId, defaultBadges)
    ELSE IF S.calls[p].op = "load" /\ out = "returned"
    THEN [S EXCEPT !.userBadges = res, !.calls[p] = EndCall]
    ELSE [S EXCEPT !.calls[p] = EndCall]

\* loadBadges of BadgeSettings, lines 374-405
SettleMount(S, p, out, res) ==
    IF S.calls[p].op = "load" /\ out = "returned" /\ Len(res) = 0
    THEN LET defaultBadges == NewRefs(S.heap, DefaultBadges)
         IN  SaveStart([S EXCEPT !.heap = Alloc(S.heap, DefaultBadges),
                                 !.badges = defaultBadges,
                                 !.userBadges = defaultBadges],
                       p, S.calls[p].userId, defaultBadges)
    ELSE IF S.calls[p].op = "load" /\ out = "returned"
    THEN [S EXCEPT !.badges = res, !.userBadges = res, !.loading = FALSE,
                   !.calls[p] = EndCall]
    ELSE IF out = "returned"
    THEN [S EXCEPT !.loading = FALSE, !.calls[p] = EndCall]
    ELSE \* catch (error): fall back to default badges
         LET defaultBadges == NewRefs(S.heap, DefaultBadges)
         IN  [S EXCEPT !.heap = Alloc(S.heap, DefaultBadges),
                       !.badges = defaultBadges, !.userBadges = defaultBadges,
                       !.loading = FALSE, !.calls[p] = EndCall]

\* a variant that publishes the list whether or not the save succeeded
SettleSaveBadges_Optimistic(S, p, out, res) ==
    [S EXCEPT !.userBadges = S.calls[p].badges,
              !.hasUnsavedChanges = FALSE,
              !.saveMessage = IF out = "returned" THEN MsgSaved ELSE MsgFailed,
              !.timers = S.timers + 1,
              !.calls[p] = IdleCall]

\* saveBadges / updateBadges, lines 417-426 and 452-458, after `await saveUserBadges`
SettleSaveBadges(S, p, out, res) ==
    IF out = "returned"
    THEN [S EXCEPT !.userBadges = S.calls[p].badges,
                   !.hasUnsavedChanges = FALSE,
                   !.saveMessage = MsgSaved,
                   !.timers = S.timers + 1,
                   !.calls[p] = IdleCall]
    ELSE [S EXCEPT !.saveMessage = MsgFailed,
                   !.timers = S.timers + 1,
                   !.calls[p] = IdleCall]

Settle(S, p, out, res) ==
    IF p \in Callers THEN SettleDirect(S, p, out, res)
    ELSE IF p = "start" THEN SettleStart(S, p, out, res)
    ELSE IF p = "mount" THEN SettleMount(S, p, out, res)
    ELSE SettleSaveBadges(S, p, out, res)

-----------------------------------------------------------------------------
(* saveUserBadges, lines 352-363: after its awaits *)

\* a variant that writes the store and leaves the cache alone
SaveOnSet_NoCache(S, p) ==
    Settle([S EXCEPT !.dataStore[GlobalKey] = Some(S.calls[p].globalBadges)],
           p, "returned", <<>>)

\* a variant that keeps writing the per-user key as well
SaveOnSet_AlsoLegacy(S, p) ==
    LET c == S.calls[p]
        S1 == [S EXCEPT !.dataStore[GlobalKey] = Some(c.globalBadges),
                        !.dataStore[LegacyKey(c.userId)] =
                            Some(EntryOr(c.globalBadges, c.userId))]
    IN  Settle(CachePut(S1, c.userId, c.badges), p, "returned", <<>>)

\* the set has resolved: the store holds the merged object; update the cache
SaveOnSet(S, p) ==
    LET c == S.calls[p]
        S1 == [S EXCEPT !.dataStore[GlobalKey] = Some(c.globalBadges)]
    IN  Settle(CachePut(S1, c.userId, c.badges), p, "returned", <<>>)

\* catch (error) { throw error; }
SaveCatch(S, p) == Settle(S, p, "threw", <<>>)

-----------------------------------------------------------------------------
(* loadUserBadges, lines 277-338 *)

\* a variant whose entries live one instant longer
IsFresh_Inclusive(cached, cacheTime, t) ==
    /\ cached.has
    /\ cacheTime.has
    /\ cacheTime.val # 0
    /\ (t - cacheTime.val) <= CACHE_DURATION

\* a variant that does not trust an empty cached list
IsFresh_NonEmpty(cached, cacheTime, t) ==
    /\ cached.has
    /\ Len(cached.val) > 0
    /\ cacheTime.has
    /\ cacheTime.val # 0
    /\ (t - cacheTime.val) < CACHE_DURATION

\* cached && cacheTime && (Date.now() - cacheTime) < CACHE_DURATION
\* (an array is truthy even when empty; a timestamp is truthy unless 0)
IsFresh(cached, cacheTime, t) ==
    /\ cached.has
    /\ cacheTime.has
    /\ cacheTime.val # 0
    /\ (t - cacheTime.val) < CACHE_DURATION

\* the call up to `return cached` or up to `await DataStore.get(...)`
LoadStart(S, p, userId) ==
    LET S1 == [S EXCEPT !.calls[p] = [IdleCall EXCEPT !.op = "load", !.userId = userId]]
    IN  IF IsFresh(S.badgeCache[userId], S.cacheTimestamps[userId], S.now)
        THEN Settle(S1, p, "returned", S.badgeCache[userId].val)
        ELSE [S1 EXCEPT !.calls[p].pc = "l_get", !.calls[p].io = TRUE]

\* lines 318-330: cache the result and return it (vals are freshly read objects)
LoadCacheAndReturn(S, p, vals) ==
    LET refs == NewRefs(S.heap, vals)
        S1 == [S EXCEPT !.heap = Alloc(S.heap, vals)]
    IN  Settle(CachePut(S1, S.calls[p].userId, refs), p, "returned", refs)

\* a variant whose catch block rethrows
LoadCatch_Rethrow(S, p) == Settle(S, p, "threw", <<>>)

\* lines 331-337: catch (error): cache and return an empty list
LoadCatch(S, p) ==
    Settle(CachePut(S, S.calls[p].userId, <<>>), p, "returned", <<>>)

\* a variant that reads the legacy key whatever the mapping holds
LoadOnGet_AlwaysLegacy(S, p) ==
    LET c == S.calls[p]
    IN  [S EXCEPT !.calls[p] = [c EXCEPT !.pc = "l_getOld",
                                         !.globalBadges = GetGlobal(S.dataStore)]]

\* lines 290-300: the global get has resolved
LoadOnGet(S, p) ==
    LET c == S.calls[p]
        globalBadges == GetGlobal(S.dataStore)
        userBadgesL == EntryOr(globalBadges, c.userId)
    IN  IF Len(userBadgesL) = 0
        THEN [S EXCEPT !.calls[p] = [c EXCEPT !.pc = "l_getOld",
                                              !.globalBadges = globalBadges]]
        ELSE LoadCacheAndReturn(S, p, userBadgesL)

\* a variant that writes a mapping holding the migrated id only
MigrateMerge_Overwrite(globalBadges, userId, oldBadges) ==
    [NoGlobal EXCEPT ![userId] = Some(oldBadges)]

\* globalBadges[userId] = oldBadges
MigrateMerge(globalBadges, userId, oldBadges) ==
    [globalBadges EXCEPT ![userId] = Some(oldBadges)]

\* lines 300-308: the legacy get has resolved
LoadOnGetOld(S, p) ==
    LET c == S.calls[p]
        oldBadges == S.dataStore[LegacyKey(c.userId)]
    IN  IF oldBadges.has /\ Len(oldBadges.val) > 0
        THEN LET merged == MigrateMerge(c.globalBadges, c.userId, oldBadges.val)
             IN  [S EXCEPT !.calls[p] = [c EXCEPT !.pc = "l_set",
                                                  !.oldBadges = oldBadges.val,
                                                  !.globalBadges = merged]]
        ELSE LoadCacheAndReturn(S, p, EntryOr(c.globalBadges, c.userId))

\* lines 308-311: the set has resolved; delete the legacy key
LoadOnSet(S, p) ==
    LET c == S.calls[p]
    IN  [S EXCEPT !.dataStore[GlobalKey] = Some(c.globalBadges),
                  !.calls[p] = [c EXCEPT !.pc = "l_del"]]

\* a variant of the last migration step that leaves the legacy key in place
LoadOnDel_KeepLegacy(S, p) == LoadCacheAndReturn(S, p, S.calls[p].oldBadges)

\* lines 311-330: the delete has resolved; userBadges = oldBadges
LoadOnDel(S, p) ==
    LET c == S.calls[p]
        S1 == [S EXCEPT !.dataStore[LegacyKey(c.userId)] = None]
    IN  LoadCacheAndReturn(S1, p, c.oldBadges)

-----------------------------------------------------------------------------
(* Observation of the latest event (read by the properties only) *)

\* the values of the cache entry of userId
CacheVals(userId) ==
    IF badgeCache[userId].has THEN Some(Deref(heap, badgeCache[userId].val)) ELSE None

\* an invocation of loadUserBadges: the save that settled just before it (if
\* any), and the store, the cache entry and its age at the moment of the call
CallEvent(p, userId) ==
    [kind |-> "call", p |-> p, store |-> dataStore,
     prev |-> IF lastEvent.kind = "saved" THEN lastEvent ELSE NoEvent,
     age |-> IF badgeCache[userId].has /\ cacheTimestamps[userId].has
             THEN Some(now - cacheTimestamps[userId].val) ELSE None,
     cached |-> CacheVals(userId)]

\* A resolved DataStore operation of loadUserBadges: the observation of its call
\* is kept as long as no other event has come between.
LoadStepEvent(p) ==
    IF lastEvent.kind = "call" /\ lastEvent.p = p THEN lastEvent ELSE NoEvent

\* a rejected DataStore operation of loadUserBadges: the awaited operation and
\* the cache entry at that moment
LoadFailedEvent(p) ==
    [kind |-> "loadFailed", p |-> p, stage |-> calls[p].pc,
     had |-> CacheVals(calls[p].userId)]

\* a rejected DataStore operation of saveUserBadges
SaveFailedEvent(p) == [kind |-> "saveFailed", p |-> p, stage |-> calls[p].pc]

\* a resolved DataStore.set of saveUserBadges
SavedEvent(p) ==
    [kind |-> "saved", p |-> p, userId |-> calls[p].userId,
     vals |-> Deref(heap, calls[p].badges), at |-> now]

-----------------------------------------------------------------------------
(* Actions: direct invocations and the completion of DataStore operations *)

\* A direct caller may invoke when its previous invocation has settled (its
\* result is kept until then).  The slots are interchangeable: a slot is not
\* used while an earlier one has never been.
FreeSlot(p) ==
    /\ calls[p].pc \in {"idle", "done"}
    /\ \A i, j \in 1..Len(ProcOrder) :
          (ProcOrder[j] = p /\ i < j /\ ProcOrder[i] \in Callers)
              => calls[ProcOrder[i]].pc # "idle"

\* a caller invokes loadUserBadges(userId)
CallLoad(p, userId) ==
    /\ FreeSlot(p)
    /\ ncalls < MaxCalls
    /\ Commit(LoadStart(Cur, p, userId))
    /\ ncalls' = ncalls + 1
    /\ lastEvent' = CallEvent(p, userId)
    /\ UNCHANGED <<currentUser, settings, mounted, nui>>

\* a caller invokes saveUserBadges(userId, badges) with a list of its own
CallSave(p, userId, vals) ==
    /\ FreeSlot(p)
    /\ ncalls < MaxCalls
    /\ Commit(SaveStart([Cur EXCEPT !.heap = Alloc(heap, vals)], p, userId,
                        NewRefs(heap, vals)))
    /\ ncalls' = ncalls + 1
    /\ lastEvent' = NoEvent
    /\ UNCHANGED <<currentUser, settings, mounted, nui>>

\* DataStore.get("CustomBadges_GlobalStorage") of loadUserBadges resolves or rejects
LoadGet(p) ==
    /\ calls[p].pc = "l_get"
    /\ \E ok \in BOOLEAN :
          /\ Commit(IF ok THEN LoadOnGet(Cur, p) ELSE LoadCatch(Cur, p))
          /\ lastEvent' = IF ok THEN LoadStepEvent(p) ELSE LoadFailedEvent(p)
    /\ UNCHANGED <<currentUser, settings, ncalls, mounted, nui>>

\* DataStore.get(`customBadges_${userId}`) resolves or rejects
LoadGetOld(p) ==
    /\ calls[p].pc = "l_getOld"
    /\ \E ok \in BOOLEAN :
          /\ Commit(IF ok THEN LoadOnGetOld(Cur, p) ELSE LoadCatch(Cur, p))
          /\ lastEvent' = IF ok THEN LoadStepEvent(p) ELSE LoadFailedEvent(p)
    /\ UNCHANGED <<currentUser, settings, ncalls, mounted, nui>>

\* DataStore.set("CustomBadges_GlobalStorage", globalBadges) of the migration
LoadSet(p) ==
    /\ calls[p].pc = "l_set"
    /\ \E ok \in BOOLEAN :
          /\ Commit(IF ok THEN LoadOnSet(Cur, p) ELSE LoadCatch(Cur, p))
          /\ lastEvent' = IF ok THEN LoadStepEvent(p) ELSE LoadFailedEvent(p)
    /\ UNCHANGED <<currentUser, settings, ncalls, mounted, nui>>

\* DataStore.del(`customBadges_${userId}`) resolves or rejects
LoadDel(p) ==
    /\ calls[p].pc = "l_del"
    /\ \E ok \in BOOLEAN :
          /\ Commit(IF ok THEN LoadOnDel(Cur, p) ELSE LoadCatch(Cur, p))
          /\ lastEvent' = IF ok THEN LoadStepEvent(p) ELSE LoadFailedEvent(p)
    /\ UNCHANGED <<currentUser, settings, ncalls, mounted, nui>>

\* DataStore.get of saveUserBadges resolves or rejects
SaveGet(p) ==
    /\ calls[p].pc = "s_get"
    /\ \E ok \in BOOLEAN :
          /\ Commit(IF ok THEN SaveOnGet(Cur, p) ELSE SaveCatch(Cur, p))
          /\ lastEvent' = IF ok THEN NoEvent ELSE SaveFailedEvent(p)
    /\ UNCHANGED <<currentUser, settings, ncalls, mounted, nui>>

\* DataStore.set of saveUserBadges resolves or rejects
SaveSet(p) ==
    /\ calls[p].pc = "s_set"
    /\ \E ok \in BOOLEAN :
          /\ Commit(IF ok THEN SaveOnSet(Cur, p) ELSE SaveCatch(Cur, p))
          /\ lastEvent' = IF ok THEN SavedEvent(p) ELSE SaveFailedEvent(p)
    /\ UNCHANGED <<currentUser, settings, ncalls, mounted, nui>>

\* Time passes.  The program reads the clock only to stamp a cache entry and to
\* compare with a stamp, so the passing of time is followed only while some
\* stamp is within reach of the comparison (at most one step past its expiry).
Tick ==
    /\ now + TickMs <= MaxNow
    /\ \E u \in UserIds :
          cacheTimestamps[u].has /\ now - cacheTimestamps[u].val <= CACHE_DURATION
    /\ now' = now + TickMs
    /\ UNCHANGED <<currentUser, settings, dataStore, badgeCache, cacheTimestamps, heap,
                   userBadges, calls, ncalls, badges, loading, saveMessage,
                   hasUnsavedChanges, mounted, timers, nui, lastEvent>>

\* the DataStore operation some invocation awaits completes
IoStep ==
    \E p \in Procs :
        \/ LoadGet(p)
        \/ LoadGetOld(p)
        \/ LoadSet(p)
        \/ LoadDel(p)
        \/ SaveGet(p)
        \/ SaveSet(p)

\* The store under concurrent direct callers
Next ==
    \/ \E p \in Callers, u \in UserIds : CallLoad(p, u)
    \/ \E p \in Callers, u \in UserIds, vals \in SaveInputs : CallSave(p, u, vals)
    \/ IoStep
    \/ Tick

\* loadUserBadges and saveUserBadges take the id as an argument and never read
\* the current user: the direct callers are followed on a logged-in client
InitCalls ==
    /\ Init
    /\ currentUser = Some(LocalUser)

Spec == InitCalls /\ [][Next]_vars

-----------------------------------------------------------------------------
(* Actions: plugin start and the BadgeSettings editor *)

MaxUi == 2
MaxLen == 3

\* the Save button handlers that may be in flight at once
Buttons == {"btn1", "btn2"}

\* values typed into the fields of a badge
EditValues(field) ==
    IF field = "name" THEN {"", "X"}
    ELSE IF field = "emoji" THEN {<<>>, <<127918>>}
    ELSE {"", "https://a/b.png"}

\* text typed into the emoji input (maxLength 2)
TypedEmojis == {<<>>, <<127918>>, <<11088, 97>>}

\* [...value].slice(0, 1).join(''), lines 537-541
SingleChar(value) == IF Len(value) = 0 THEN <<>> ELSE <<value[1]>>

\* the user logs in: UserStore.getCurrentUser() returns the account from now on
Login ==
    /\ ~currentUser.has
    /\ currentUser' = Some(LocalUser)
    /\ UNCHANGED <<settings, now, dataStore, badgeCache, cacheTimestamps, heap,
                   userBadges, calls, ncalls, badges, loading, saveMessage,
                   hasUnsavedChanges, mounted, timers, nui, lastEvent>>

\* start(), lines 603-612: up to `await loadUserBadges(currentUserId)`; without
\* a current user start() does nothing
PluginStart ==
    /\ calls["start"].pc = "idle"
    /\ IF currentUser.has
       THEN Commit(LoadStart(Cur, "start", currentUser.val))
       ELSE Commit([Cur EXCEPT !.calls["start"] = EndCall])
    /\ lastEvent' = NoEvent
    /\ UNCHANGED <<currentUser, settings, ncalls, mounted, nui>>

\* BadgeSettings mounts: useEffect runs loadBadges, lines 373-378 (the settings
\* are opened once the plugin has been started)
Mount ==
    /\ ~mounted
    /\ calls["start"].pc # "idle"
    /\ calls["mount"].pc = "idle"
    /\ mounted' = TRUE
    /\ IF currentUser.has
       THEN Commit(LoadStart(Cur, "mount", currentUser.val))
       ELSE Commit([Cur EXCEPT !.loading = FALSE, !.calls["mount"] = EndCall])
    /\ lastEvent' = NoEvent
    /\ UNCHANGED <<currentUser, settings, ncalls, nui>>

\* the editor is rendered (not "Loading your badges...")
EditorReady == mounted /\ ~loading /\ nui < MaxUi

\* addBadge, lines 429-433
AddBadge ==
    /\ EditorReady
    /\ Len(badges) < MaxLen
    /\ LET newBadge == <<Badge("", <<>>, "")>>
       IN  Commit([Cur EXCEPT !.heap = Alloc(heap, newBadge),
                              !.badges = badges \o NewRefs(heap, newBadge),
                              !.hasUnsavedChanges = TRUE])
    /\ nui' = nui + 1
    /\ UNCHANGED <<currentUser, settings, ncalls, mounted, lastEvent>>

\* badges.filter((_, i) => i !== index), with index counted from 1
RemoveAt(list, index) ==
    [i \in 1..(Len(list) - 1) |-> IF i < index THEN list[i] ELSE list[i + 1]]

\* removeBadge, lines 435-439
RemoveBadge(index) ==
    /\ EditorReady
    /\ index \in 1..Len(badges)
    /\ Commit([Cur EXCEPT !.badges = RemoveAt(badges, index),
                          !.hasUnsavedChanges = TRUE])
    /\ nui' = nui + 1
    /\ UNCHANGED <<currentUser, settings, ncalls, mounted, lastEvent>>

\* updateBadge, lines 441-446: newBadges[index][field] = value writes the field
\* of the object the list refers to; the new array holds the same references
UpdateBadge(index, field, value) ==
    /\ EditorReady
    /\ index \in 1..Len(badges)
    /\ Commit([Cur EXCEPT !.heap[badges[index]][field] = value,
                          !.hasUnsavedChanges = TRUE])
    /\ nui' = nui + 1
    /\ UNCHANGED <<currentUser, settings, ncalls, mounted, lastEvent>>

\* saveBadges, lines 448-451, and updateBadges, lines 409-417: up to
\* `await saveUserBadges(currentUserId, newBadges)`; the handlers in flight are
\* interchangeable, a click takes the first idle one
SaveBadges(p) ==
    /\ EditorReady
    /\ calls[p].pc = "idle"
    /\ p = "btn2" => calls["btn1"].pc # "idle"
    /\ IF currentUser.has
       THEN Commit(SaveStart([Cur EXCEPT !.saveMessage = MsgSaving], p,
                             currentUser.val, badges))
       ELSE \* lines 419-421: nothing is saved, updateBadges returns normally
            Commit([Cur EXCEPT !.hasUnsavedChanges = FALSE,
                               !.saveMessage = MsgSaved,
                               !.timers = timers + 1])
    /\ nui' = nui + 1
    /\ lastEvent' = NoEvent
    /\ UNCHANGED <<currentUser, settings, ncalls, mounted>>

\* setTimeout(() => setSaveMessage(""), 3000) fires
MessageTimeout ==
    /\ timers > 0
    /\ Commit([Cur EXCEPT !.saveMessage = "", !.timers = timers - 1])
    /\ UNCHANGED <<currentUser, settings, ncalls, mounted, nui, lastEvent>>

\* Plugin start and the editor, for the current user
NextEditor ==
    \/ PluginStart
    \/ Mount
    \/ AddBadge
    \/ \E i \in 1..MaxLen : RemoveBadge(i)
    \/ \E i \in 1..MaxLen, f \in {"name", "url"} :
          \E v \in EditValues(f) : UpdateBadge(i, f, v)
    \/ \E i \in 1..MaxLen, typed \in TypedEmojis :
          UpdateBadge(i, "emoji", SingleChar(typed))
    \/ \E p \in Buttons : SaveBadges(p)
    \/ Login
    \/ MessageTimeout
    \/ IoStep

SpecEditor == Init /\ [][NextEditor]_vars

-----------------------------------------------------------------------------
(* The display adapters: getBadges of addProfileBadge (lines 640-655) and    *)
(* getBadges of userProfileBadge in the settings-backed revision (175-209)   *)

MaxShown == 2

HexDigit == <<"0", "1", "2", "3", "4", "5", "6", "7",
              "8", "9", "a", "b", "c", "d", "e", "f">>

\* codePoint.toString(16)
RECURSIVE ToHex(_)
ToHex(n) == IF n < 16 THEN HexDigit[n + 1]
            ELSE ToHex(n \div 16) \o HexDigit[(n % 16) + 1]

\* emoji.replace(/[\uFE00-\uFE0F\u200D]/g, ''): variation selectors and the joiner
CleanEmoji(emoji) == SelectSeq(emoji, LAMBDA c : ~(c \in 65024..65039 \/ c = 8205))

\* .join('-')
RECURSIVE JoinDash(_)
JoinDash(strs) ==
    IF strs = <<>> THEN ""
    ELSE IF Len(strs) = 1 THEN strs[1]
    ELSE strs[1] \o "-" \o JoinDash(Tail(strs))

\* emojiToImageUrl, lines 244-261 (and 33-52): a code point 0 is dropped by
\* `if (!codePoint) return null` and .filter(Boolean)
emojiToImageUrl(emoji) ==
    IF emoji = <<>> THEN ""
    ELSE LET codes == SelectSeq(CleanEmoji(emoji), LAMBDA c : c # 0)
             codePoints == JoinDash([i \in 1..Len(codes) |-> ToHex(codes[i])])
         IN  "https://cdn.jsdelivr.net/gh/twitter/twemoji@14.0.2/assets/72x72/"
                 \o codePoints \o ".png"

\* a variant of the filter that asks for a name only
Shown_NameOnly(badge) == badge.name # ""

\* badge => badge.name && (badge.emoji || badge.url)
Shown(badge) == badge.name # "" /\ (badge.emoji # <<>> \/ badge.url # "")

\* a variant that prefers the emoji to the url
Descriptor_EmojiFirst(badge) ==
    [description |-> badge.name,
     image |-> IF badge.emoji # <<>> THEN emojiToImageUrl(badge.emoji) ELSE badge.url]

\* badge => ({ description: badge.name, image: badge.url || emojiToImageUrl(badge.emoji) })
Descriptor(badge) ==
    [description |-> badge.name,
     image |-> IF badge.url # "" THEN badge.url ELSE emojiToImageUrl(badge.emoji)]

\* getBadges of addProfileBadge, lines 640-655
getBadges(userId) ==
    IF ~IsCurrentUser(userId) THEN <<>>
    ELSE LET kept == SelectSeq(Deref(heap, userBadges), Shown)
         IN  [i \in 1..Len(kept) |-> Descriptor(kept[i])]

\* interface Badge { id; name; emoji; icon } of the settings-backed revision
SettingsBadge(id, name, emoji, icon) ==
    [id |-> id, name |-> name, emoji |-> emoji, icon |-> icon]

\* a variant that never shows badges on the profiles of others
shouldShow_SelfOnly(userId) == IsCurrentUser(userId) /\ settings.showOnSelf

\* (isCurrentUser && settings.store.showOnSelf) ||
\* (!isCurrentUser && settings.store.showOnOthers)
shouldShow(userId) ==
    \/ (IsCurrentUser(userId) /\ settings.showOnSelf)
    \/ (~IsCurrentUser(userId) /\ settings.showOnOthers)

\* badge => badge.name && (badge.emoji || badge.icon)
ShownConfigured(badge) == badge.name # "" /\ (badge.emoji # <<>> \/ badge.icon # "")

\* lines 192-207: the image url takes priority over the emoji
badgeIconSource(badge) ==
    IF badge.icon # "" THEN badge.icon
    ELSE IF badge.emoji # <<>> THEN emojiToImageUrl(badge.emoji)
    ELSE ""

\* getBadges of userProfileBadge, lines 175-209
getBadgesConfigured(userId) ==
    IF ~shouldShow(userId) THEN <<>>
    ELSE LET kept == SelectSeq(settings.badges, ShownConfigured)
         IN  [i \in 1..Len(kept) |->
                 [description |-> kept[i].name, image |-> badgeIconSource(kept[i])]]

\* the fields of the records shown on profiles
ShownNames == {"", "X", "Y"}
ShownEmojis == {<<>>, <<127918>>, <<10084, 65039>>}
ShownUrls == {"", "https://a/b.png"}
ShownRecords ==
    {Badge(n, e, u) : n \in ShownNames, e \in ShownEmojis, u \in ShownUrls}

\* non-empty lists of at most MaxShown records
ShownLists == UNION {[1..k -> ShownRecords] : k \in 1..MaxShown}

\* Discord asks for the badges of the profile of userId (DataStore revision)
ShowProfile(userId) ==
    /\ lastEvent' = [kind |-> "getBadges", userId |-> userId,
                     result |-> getBadges(userId)]
    /\ UNCHANGED <<currentUser, settings, now, dataStore, badgeCache, cacheTimestamps, heap,
                   userBadges, calls, ncalls, badges, loading, saveMessage,
                   hasUnsavedChanges, mounted, timers, nui>>

\* Discord asks for the badges of the profile of userId (settings revision)
ShowProfileConfigured(userId) ==
    /\ lastEvent' = [kind |-> "userProfileBadge", userId |-> userId,
                     result |-> getBadgesConfigured(userId)]
    /\ UNCHANGED <<currentUser, settings, now, dataStore, badgeCache, cacheTimestamps, heap,
                   userBadges, calls, ncalls, badges, loading, saveMessage,
                   hasUnsavedChanges, mounted, timers, nui>>

\* The plugin has started: with a current user start() has loaded the records
\* of that user from the store, without one it has loaded nothing; the settings
\* of the settings-backed revision hold the same records and any choice of the
\* two toggles.
InitDisplay ==
    /\ now = StartTime
    /\ \E recs \in ShownLists, cu \in {None, Some(LocalUser)} :
          /\ currentUser = cu
          /\ heap = IF cu.has THEN recs ELSE <<>>
          /\ userBadges = IF cu.has THEN [i \in 1..Len(recs) |-> i] ELSE <<>>
          /\ badgeCache = [u \in UserIds |->
                             IF u = LocalUser /\ cu.has
                             THEN Some([i \in 1..Len(recs) |-> i])
                             ELSE None]
          /\ cacheTimestamps = [u \in UserIds |->
                                  IF u = LocalUser /\ cu.has THEN Some(StartTime)
                                  ELSE None]
          /\ dataStore = [k \in Keys |->
                             IF k = GlobalKey
                             THEN Some([NoGlobal EXCEPT ![LocalUser] = Some(recs)])
                             ELSE None]
          /\ \E self \in BOOLEAN, others \in BOOLEAN :
                settings = [badges |-> [i \in 1..Len(recs) |->
                                          SettingsBadge(i, recs[i].name, recs[i].emoji,
                                                        recs[i].url)],
                            showOnSelf |-> self, showOnOthers |-> others]
    /\ calls = [p \in Procs |-> IF p = "start" THEN EndCall ELSE IdleCall]
    /\ ncalls = 0
    /\ badges = <<>>
    /\ loading = TRUE
    /\ saveMessage = ""
    /\ hasUnsavedChanges = FALSE
    /\ mounted = FALSE
    /\ timers = 0
    /\ nui = 0
    /\ lastEvent = NoEvent

NextDisplay ==
    \/ \E u \in UserIds : ShowProfile(u)
    \/ \E u \in UserIds : ShowProfileConfigured(u)

SpecDisplay == InitDisplay /\ [][NextDisplay]_vars

-----------------------------------------------------------------------------
(* Concurrent loads: every id may have a legacy key left by an older version *)

InitLoads ==
    /\ now = StartTime
    /\ \E leg \in [UserIds -> {None} \cup {Some(l) : l \in LegacyInputs}] :
          dataStore = [k \in Keys |->
                         IF k = GlobalKey THEN None
                         ELSE leg[CHOOSE u \in UserIds : LegacyKey(u) = k]]
    /\ badgeCache = [u \in UserIds |-> None]
    /\ cacheTimestamps = [u \in UserIds |-> None]
    /\ heap = << >>
    /\ userBadges = <<>>
    /\ calls = [p \in Procs |-> IdleCall]
    /\ ncalls = 0
    /\ badges = <<>>
    /\ loading = TRUE
    /\ saveMessage = ""
    /\ hasUnsavedChanges = FALSE
    /\ mounted = FALSE
    /\ timers = 0
    /\ nui = 0
    /\ lastEvent = NoEvent
    /\ settings = DefaultSettings
    /\ currentUser = Some(LocalUser)

\* the DataStore operation some loadUserBadges awaits completes
LoadIoStep ==
    \E p \in Callers :
        \/ LoadGet(p)
        \/ LoadGetOld(p)
        \/ LoadSet(p)
        \/ LoadDel(p)

NextLoads ==
    \/ \E p \in Callers, u \in UserIds : CallLoad(p, u)
    \/ LoadIoStep
    \/ Tick

SpecLoads == InitLoads /\ [][NextLoads]_vars

-----------------------------------------------------------------------------
(* Properties of the store under concurrent direct callers (Spec) *)

\* a list of values is what the consolidated mapping holds for userId
StoredIs(userId, vals) == GetGlobal(dataStore)[userId] = Some(vals)

\* saveUserBadges of caller p is between its call and its settling
SaveInFlight(p) == calls[p].op = "save" /\ calls[p].pc \in {"s_get", "s_set"}

\* C1: two saves issued for distinct ids against an empty consolidated mapping
\* leave, once both have returned, a mapping that holds the records of both.
C1_BothSavesKept ==
    \A p, q \in Callers :
        (/\ p # q
         /\ ncalls = 2
         /\ calls[p].pc = "done" /\ calls[p].op = "save" /\ calls[p].outcome = "returned"
         /\ calls[q].pc = "done" /\ calls[q].op = "save" /\ calls[q].outcome = "returned"
         /\ calls[p].userId # calls[q].userId)
        => /\ StoredIs(calls[p].userId, Deref(heap, calls[p].badges))
           /\ StoredIs(calls[q].userId, Deref(heap, calls[q].badges))

\* C2: two read-merge-write cycles of saveUserBadges for one id never overlap:
\* no two invocations for the same id are in flight at once.
C2_SavesOfOneIdSerialized ==
    \A p, q \in Procs :
        (p # q /\ SaveInFlight(p) /\ SaveInFlight(q))
            => calls[p].userId # calls[q].userId

\* the invocation observed by a "call" event was made right after a save of the
\* same id returned, less than CACHE_DURATION after it
LoadRightAfterSave ==
    /\ lastEvent.kind = "call"
    /\ lastEvent.prev.kind = "saved"
    /\ calls[lastEvent.p].op = "load"
    /\ calls[lastEvent.p].userId = lastEvent.prev.userId
    /\ now - lastEvent.prev.at < CACHE_DURATION

\* caller p's load has returned vals from the cache, without a DataStore operation
ReturnedFromCache(p, vals) ==
    /\ calls[p].pc = "done"
    /\ calls[p].outcome = "returned"
    /\ ~calls[p].io
    /\ Deref(heap, calls[p].result) = vals

\* C3: a load issued right after save(id, R) returned, before the TTL has
\* elapsed, returns exactly R, in order, from the cache and without reading
\* the store.
C3_SaveThenLoad ==
    LoadRightAfterSave => ReturnedFromCache(lastEvent.p, lastEvent.prev.vals)

C3_Witness ==
    /\ LoadRightAfterSave
    /\ now > lastEvent.prev.at
    /\ Len(lastEvent.prev.vals) = 2
    /\ ReturnedFromCache(lastEvent.p, lastEvent.prev.vals)

\* C4: a load issued when the cache entry of its id is younger than
\* CACHE_DURATION returns the cached records without a DataStore operation; one
\* issued when the entry is CACHE_DURATION old or older reads the store; for
\* every cached list, the empty one included.
C4_CacheFreshness ==
    (lastEvent.kind = "call" /\ calls[lastEvent.p].op = "load" /\ lastEvent.age.has)
        => IF lastEvent.age.val < CACHE_DURATION
           THEN ReturnedFromCache(lastEvent.p, lastEvent.cached.val)
           ELSE calls[lastEvent.p].io

C4_Witness ==
    /\ lastEvent.kind = "call"
    /\ calls[lastEvent.p].op = "load"
    /\ lastEvent.age.has
    /\ lastEvent.age.val = TickMs
    /\ lastEvent.cached = Some(<<>>)
    /\ ReturnedFromCache(lastEvent.p, <<>>)

\* C5: after every successful save(id, records) the consolidated entry of id
\* is records and no legacy key of id remains.
C5_SaveLeavesNoLegacyKey ==
    lastEvent.kind = "saved"
        => /\ StoredIs(lastEvent.userId, lastEvent.vals)
           /\ ~dataStore[LegacyKey(lastEvent.userId)].has

\* C6: a load whose store access fails returns the cache entry of its id if
\* there is one (even a stale one), and the empty list only if there is none.
C6_FailedLoadFallsBackToCache ==
    (lastEvent.kind = "loadFailed" /\ lastEvent.p \in Callers)
        => Deref(heap, calls[lastEvent.p].result)
              = (IF lastEvent.had.has THEN lastEvent.had.val ELSE <<>>)

\* C7: loadUserBadges never throws: whichever DataStore operation rejects
\* (the reads, the migration's set and del), it returns a list.
C7_LoadNeverThrows ==
    /\ \A p \in Callers :
          (calls[p].op = "load" /\ calls[p].pc = "done") => calls[p].outcome = "returned"
    /\ (lastEvent.kind = "loadFailed" /\ lastEvent.p \in Callers)
          => /\ calls[lastEvent.p].pc = "done"
             /\ calls[lastEvent.p].outcome = "returned"

C7_Witness ==
    /\ lastEvent.kind = "loadFailed"
    /\ lastEvent.stage = "l_del"
    /\ calls[lastEvent.p].pc = "done"
    /\ calls[lastEvent.p].outcome = "returned"

\* C8: a save whose get or set rejects throws and leaves the cache entry and
\* stamp of its id as they were; the save touches the cache only in the step in
\* which its set resolves, and then the store holds the written mapping.
C8_FailedSaveLeavesCache ==
    [][\A p \in Callers :
          (SaveInFlight(p) /\ calls'[p].pc # calls[p].pc)
          => LET u == calls[p].userId
                 wrote == calls[p].pc = "s_set" /\ calls'[p].outcome = "returned"
                 failed == lastEvent'.kind = "saveFailed" /\ lastEvent'.p = p
             IN  /\ failed => calls'[p].pc = "done" /\ calls'[p].outcome = "threw"
                 /\ ~wrote => /\ CacheVals(u)' = CacheVals(u)
                              /\ cacheTimestamps'[u] = cacheTimestamps[u]
                 /\ wrote => /\ ~failed
                             /\ dataStore'[GlobalKey] = Some(calls[p].globalBadges)
                             /\ CacheVals(u)' = Some(Deref(heap, calls[p].badges))
                             /\ cacheTimestamps'[u] = Some(now)
      ]_vars

C8_Witness ==
    /\ lastEvent.kind = "saveFailed"
    /\ lastEvent.stage = "s_set"
    /\ calls[lastEvent.p].outcome = "threw"
    /\ badgeCache[calls[lastEvent.p].userId].has
    /\ Len(badgeCache[calls[lastEvent.p].userId].val) > 0

\* caller p's cold load ran alone and every DataStore operation of it resolved:
\* the observation of its call is still the latest event when it has returned
ColdLoadDone(p) ==
    /\ lastEvent.kind = "call"
    /\ lastEvent.p = p
    /\ calls[p].op = "load"
    /\ calls[p].pc = "done"
    /\ calls[p].io

\* at the call observed by lastEvent, userId had no records in the consolidated
\* mapping and a non-empty list under its legacy key
NeedsMigration(userId) ==
    /\ Len(EntryOr(GetGlobal(lastEvent.store), userId)) = 0
    /\ lastEvent.store[LegacyKey(userId)].has
    /\ Len(lastEvent.store[LegacyKey(userId)].val) > 0

\* C10: a cold load of an id without consolidated records and with a non-empty
\* legacy list L returns L; afterwards the consolidated entry of the id is L,
\* the entries of the other ids are what they were, and the legacy key is gone.
C10_MigratingLoad ==
    \A p \in Callers :
        (ColdLoadDone(p) /\ NeedsMigration(calls[p].userId))
        => LET u == calls[p].userId
               L == lastEvent.store[LegacyKey(u)].val
           IN  /\ calls[p].outcome = "returned"
               /\ Deref(heap, calls[p].result) = L
               /\ StoredIs(u, L)
               /\ \A v \in UserIds \ {u} :
                     GetGlobal(dataStore)[v] = GetGlobal(lastEvent.store)[v]
               /\ ~dataStore[LegacyKey(u)].has

C10_Witness ==
    \E p \in Callers :
        /\ ColdLoadDone(p)
        /\ NeedsMigration(calls[p].userId)
        /\ \E v \in UserIds \ {calls[p].userId} :
              Len(EntryOr(GetGlobal(lastEvent.store), v)) > 0
        /\ Deref(heap, calls[p].result) = lastEvent.store[LegacyKey(calls[p].userId)].val
        /\ StoredIs(calls[p].userId, Deref(heap, calls[p].result))
        /\ ~dataStore[LegacyKey(calls[p].userId)].has

-----------------------------------------------------------------------------
(* Properties of the editor (SpecEditor) *)

\* the step is the failure of the save started by Save button handler p
EditorSaveFails(p) ==
    /\ SaveInFlight(p)
    /\ lastEvent'.kind = "saveFailed"
    /\ lastEvent'.p = p

\* C9: when a save started by the Save button fails, the editor's list is left
\* as it was, the unsaved-changes flag is not cleared, the failure message is
\* shown, and userBadges is not replaced; the handler is over, so the list can
\* be saved again.
C9_FailedEditorSaveKeepsEdits ==
    [][\A p \in Buttons :
          EditorSaveFails(p)
          => /\ Deref(heap', badges') = Deref(heap, badges)
             /\ hasUnsavedChanges' = hasUnsavedChanges
             /\ saveMessage' = MsgFailed
             /\ Deref(heap', userBadges') = Deref(heap, userBadges)
             /\ calls'[p].pc = "idle"
      ]_vars

C9_Witness ==
    /\ lastEvent.kind = "saveFailed"
    /\ lastEvent.p \in Buttons
    /\ hasUnsavedChanges
    /\ saveMessage = MsgFailed
    /\ Len(badges) > Len(userBadges)
    /\ calls[lastEvent.p].pc = "idle"

-----------------------------------------------------------------------------
(* Properties of the migration (Spec) *)

\* the state S once every cache entry has expired
Expired(S) == [S EXCEPT !.now = S.now + CACHE_DURATION]

\* loadUserBadges of caller p run to its return from state S, every awaited
\* DataStore operation resolving and nothing else running in between
RECURSIVE RunLoad(_, _)
RunLoad(S, p) ==
    IF S.calls[p].pc = "l_get" THEN RunLoad(LoadOnGet(S, p), p)
    ELSE IF S.calls[p].pc = "l_getOld" THEN RunLoad(LoadOnGetOld(S, p), p)
    ELSE IF S.calls[p].pc = "l_set" THEN RunLoad(LoadOnSet(S, p), p)
    ELSE IF S.calls[p].pc = "l_del" THEN RunLoad(LoadOnDel(S, p), p)
    ELSE S

\* a cold loadUserBadges(userId) by caller p, run alone from state S
ColdRun(S, p, userId) == RunLoad(LoadStart(Expired(S), p, userId), p)

\* the records the settled invocation of p returned in state S
Returned(S, p) == Deref(S.heap, S.calls[p].result)

\* no invocation is in flight
Quiescent == \A p \in Procs : calls[p].pc \in {"idle", "done", "end"}

\* C11: from every reachable store (taken when nothing is in flight), a second
\* cold load of an id returns the records the first returned and leaves the
\* store the first left; a run that found legacy records leaves no legacy key.
C11_MigrationIdempotent ==
    \A u \in UserIds :
        Quiescent
        => LET once == ColdRun(Cur, "c1", u)
               twice == ColdRun(once, "c1", u)
               found == dataStore[LegacyKey(u)].has
                        /\ Len(dataStore[LegacyKey(u)].val) > 0
                        /\ Len(EntryOr(GetGlobal(dataStore), u)) = 0
           IN  /\ once.calls["c1"].io /\ twice.calls["c1"].io
               /\ twice.dataStore = once.dataStore
               /\ Returned(twice, "c1") = Returned(once, "c1")
               /\ found => /\ ~once.dataStore[LegacyKey(u)].has
                           /\ Returned(once, "c1") = dataStore[LegacyKey(u)].val

\* two cold loads of one id have run one after the other, the first migrating
C11_Witness ==
    /\ ColdLoadDone("c2")
    /\ calls["c1"].op = "load" /\ calls["c1"].pc = "done" /\ calls["c1"].io
    /\ calls["c1"].userId = calls["c2"].userId
    /\ ncalls = 2
    /\ ~lastEvent.store[LegacyKey(calls["c2"].userId)].has
    /\ Len(calls["c2"].result) > 0
    /\ lastEvent.store = dataStore
    /\ Returned(Cur, "c2") = Returned(Cur, "c1")
    /\ ColdRun(Cur, "c1", calls["c2"].userId).dataStore = dataStore

\* C12: when the DataStore.del of a migrating load rejects (its set has
\* resolved), the load returns the migrated records and caches them, as it does
\* when the del resolves.
C12_DeleteFailureIgnored ==
    [][\A p \in Callers :
          (/\ calls[p].pc = "l_del"
           /\ lastEvent'.kind = "loadFailed"
           /\ lastEvent'.p = p)
          => /\ calls'[p].outcome = "returned"
             /\ Deref(heap', calls'[p].result) = calls[p].oldBadges
             /\ CacheVals(calls[p].userId)' = Some(calls[p].oldBadges)
      ]_vars

\* the consolidated mapping of the store observed at the call holds an empty
\* list for userId: the last save of userId removed its records
RemovedAtCall(userId) == GetGlobal(lastEvent.store)[userId] = Some(<<>>)

\* C13: once save(id, []) has succeeded, a load of id called before the next
\* save of id returns the empty list, from the cache or from the store.
C13_RemovalPersists ==
    \A p \in Callers :
        (/\ lastEvent.kind = "call"
         /\ lastEvent.p = p
         /\ calls[p].op = "load"
         /\ calls[p].pc = "done"
         /\ RemovedAtCall(calls[p].userId)
         /\ \A q \in Procs : ~(SaveInFlight(q) /\ calls[q].userId = calls[p].userId))
        => Returned(Cur, p) = <<>>

-----------------------------------------------------------------------------
(* Properties of the editor, continued (SpecEditor) *)

\* the step is addBadge, removeBadge or updateBadge: an editor event that is
\* not a click on Save. saveBadges either starts saveUserBadges or, without a
\* current user, ends at once and starts the timer of its message.
EditStep ==
    /\ nui' # nui
    /\ \A p \in Buttons : calls'[p].pc = calls[p].pc
    /\ timers' = timers

\* C14: addBadge, removeBadge and updateBadge change the editor's list only:
\* the store, the values of the cache entry of the current user and the values
\* of userBadges are what they were.
C14_EditsStayInEditor ==
    [][EditStep
       => /\ dataStore' = dataStore
          /\ CacheVals(LocalUser)' = CacheVals(LocalUser)
          /\ Deref(heap', userBadges') = Deref(heap, userBadges)
      ]_vars

\* the editor is rendered, the unsaved-changes flag is cleared and no save of
\* the current user's records is in flight
Clean ==
    /\ mounted
    /\ ~loading
    /\ ~hasUnsavedChanges
    /\ \A p \in Procs : ~SaveInFlight(p)

\* C15: whenever the editor is Clean, its list is the list the store holds for
\* the current user (the last successfully saved state).
C15_CleanMeansSaved ==
    Clean => Deref(heap, badges) = EntryOr(GetGlobal(dataStore), LocalUser)

-----------------------------------------------------------------------------
(* Properties of the display adapters (SpecDisplay) *)

\* the stored records the adapter asked by lastEvent reads, as name, emoji glyph
\* and image url
RecordsRead ==
    IF lastEvent.kind = "getBadges"
    THEN [i \in 1..Len(userBadges) |->
            [name |-> heap[userBadges[i]].name, emoji |-> heap[userBadges[i]].emoji,
             imageUrl |-> heap[userBadges[i]].url]]
    ELSE [i \in 1..Len(settings.badges) |->
            [name |-> settings.badges[i].name, emoji |-> settings.badges[i].emoji,
             imageUrl |-> settings.badges[i].icon]]

\* the adapter was asked for a profile for which it shows badges
AskedVisible ==
    \/ lastEvent.kind = "getBadges" /\ IsCurrentUser(lastEvent.userId)
    \/ /\ lastEvent.kind = "userProfileBadge"
       /\ \/ (IsCurrentUser(lastEvent.userId) /\ settings.showOnSelf)
          \/ (~IsCurrentUser(lastEvent.userId) /\ settings.showOnOthers)

\* the positions of the displayable records
DisplayableAt ==
    {i \in 1..Len(RecordsRead) :
        /\ RecordsRead[i].name # ""
        /\ (RecordsRead[i].emoji # <<>> \/ RecordsRead[i].imageUrl # "")}

\* the position of the k-th displayable record
KthDisplayable(k) ==
    CHOOSE i \in DisplayableAt : Cardinality({j \in DisplayableAt : j < i}) = k - 1

\* C16: the adapter returns one descriptor for each displayable record and none
\* for the others, in the order of the records.
C16_DisplayableFilter ==
    AskedVisible
    => /\ Len(lastEvent.result) = Cardinality(DisplayableAt)
       /\ \A k \in 1..Len(lastEvent.result) :
             lastEvent.result[k].description = RecordsRead[KthDisplayable(k)].name

C16_Witness ==
    /\ AskedVisible
    /\ Len(RecordsRead) = 2
    /\ DisplayableAt = {1, 2}
    /\ RecordsRead[1].name = "Y" /\ RecordsRead[2].name = "X"
    /\ Len(lastEvent.result) = 2
    /\ lastEvent.result[1].description = "Y"
    /\ lastEvent.result[2].description = "X"

\* C17: the icon of a descriptor is the record's image url when that is not
\* empty, and the image derived from the emoji otherwise.
C17_IconPriority ==
    (AskedVisible /\ Len(lastEvent.result) = Cardinality(DisplayableAt))
    => \A k \in 1..Len(lastEvent.result) :
          LET r == RecordsRead[KthDisplayable(k)]
          IN  /\ r.imageUrl # "" => lastEvent.result[k].image = r.imageUrl
              /\ r.imageUrl = "" =>
                    /\ lastEvent.result[k].image = emojiToImageUrl(r.emoji)
                    /\ lastEvent.result[k].image # ""

C17_Witness ==
    /\ AskedVisible
    /\ Len(lastEvent.result) = 2
    /\ DisplayableAt = {1, 2}
    /\ RecordsRead[1].emoji = <<10084, 65039>> /\ RecordsRead[1].imageUrl = ""
    /\ RecordsRead[2].emoji = <<127918>> /\ RecordsRead[2].imageUrl = "https://a/b.png"
    /\ lastEvent.result[1].image
          = "https://cdn.jsdelivr.net/gh/twitter/twemoji@14.0.2/assets/72x72/2764.png"
    /\ lastEvent.result[2].image = "https://a/b.png"

\* C18: the settings-backed getBadges returns the badges when the profile is the
\* current user's and showOnSelf is on, or another user's and showOnOthers is
\* on; otherwise it returns the empty list.
C18_VisibilityToggles ==
    lastEvent.kind = "userProfileBadge"
    => IF \/ (IsCurrentUser(lastEvent.userId) /\ settings.showOnSelf)
          \/ (~IsCurrentUser(lastEvent.userId) /\ settings.showOnOthers)
       THEN Len(lastEvent.result) = Cardinality(DisplayableAt)
       ELSE lastEvent.result = <<>>

C18_Witness ==
    /\ lastEvent.kind = "userProfileBadge"
    /\ ~IsCurrentUser(lastEvent.userId)
    /\ settings.showOnOthers /\ ~settings.showOnSelf
    /\ Len(lastEvent.result) = 2

-----------------------------------------------------------------------------
(* Properties of interleaved invocations (Spec, SpecLoads) *)

\* every invocation issued so far is still visible in the slot of its caller
NoSlotReused == ncalls = Cardinality({p \in Callers : calls[p].pc # "idle"})

\* no saveUserBadges(userId, ..) has been issued so far
NoSaveIssued(userId) ==
    /\ NoSlotReused
    /\ \A p \in Callers : calls[p].op = "save" => calls[p].userId # userId

\* the records the store holds for userId: its consolidated entry, or the list
\* under its legacy key when that entry is absent or empty
StoredRecords(userId) ==
    IF Len(EntryOr(GetGlobal(dataStore), userId)) > 0
    THEN EntryOr(GetGlobal(dataStore), userId)
    ELSE IF dataStore[LegacyKey(userId)].has THEN dataStore[LegacyKey(userId)].val
    ELSE <<>>

\* C19: as long as no save of an id has been issued, no step of any load or of
\* any save of another id takes away the records the store holds for the id
\* (under its legacy key or in its consolidated entry).
C19_LegacyNeverLost ==
    [][\A u \in UserIds :
          (NoSaveIssued(u) /\ NoSaveIssued(u)' /\ Len(StoredRecords(u)) > 0)
          => StoredRecords(u)' = StoredRecords(u)
      ]_vars

\* callers p and q have each issued one load, for distinct ids, and both loads
\* have returned records
BothLoaded(p, q) ==
    /\ NoSlotReused
    /\ ncalls = 2
    /\ calls[p].op = "load" /\ calls[p].pc = "done" /\ calls[p].io
    /\ calls[q].op = "load" /\ calls[q].pc = "done" /\ calls[q].io
    /\ calls[p].userId # calls[q].userId
    /\ Len(calls[p].result) > 0
    /\ Len(calls[q].result) > 0

\* C20: once two cold loads for distinct ids have returned their records, the
\* consolidated mapping holds, for each of the two ids, the records that its
\* load returned.
C20_ConcurrentLoadsKeepBoth ==
    \A p, q \in Callers :
        BothLoaded(p, q)
        => /\ StoredIs(calls[p].userId, Returned(Cur, p))
           /\ StoredIs(calls[q].userId, Returned(Cur, q))

-----------------------------------------------------------------------------
(* Properties of the cache (Spec) *)

\* only loads have been issued so far: no invocation has written records other
\* than migrated ones, so the record set the store holds for an id has been the
\* same at every moment
OnlyLoadsIssued ==
    /\ NoSlotReused
    /\ \A p \in Callers : calls[p].op # "save"

\* caller p's load, observed by lastEvent, was answered from a cache entry
\* younger than CACHE_DURATION
FreshHit(p) ==
    /\ lastEvent.kind = "call"
    /\ lastEvent.p = p
    /\ calls[p].op = "load"
    /\ calls[p].pc = "done"
    /\ ~calls[p].io
    /\ lastEvent.age.has
    /\ lastEvent.age.val < CACHE_DURATION

\* C21: a list returned from a fresh cache hit was the record set the store
\* held for the id at some moment of the last CACHE_DURATION; where only loads
\* have been issued that record set never changed, so the list is the record
\* set the store holds.
C21_CacheAgreesWithStore ==
    \A p \in Callers :
        (OnlyLoadsIssued /\ FreshHit(p))
        => Returned(Cur, p) = StoredRecords(calls[p].userId)

\* caller q's cold load of an id without consolidated entry and without legacy
\* records has returned the empty list, and it is the only other invocation
ColdEmptyLoad(q, userId) ==
    /\ NoSlotReused
    /\ ncalls = 2
    /\ calls[q].op = "load" /\ calls[q].pc = "done" /\ calls[q].io
    /\ calls[q].userId = userId
    /\ calls[q].result = <<>>
    /\ ~GetGlobal(dataStore)[userId].has
    /\ ~dataStore[LegacyKey(userId)].has

\* C22: after a cold load of an id with nothing stored has returned the empty
\* list, a further load of the id called while the entry it cached is younger
\* than CACHE_DURATION returns the empty list without a DataStore operation.
C22_EmptyResultCached ==
    \A p, q \in Callers :
        (/\ p # q
         /\ ColdEmptyLoad(q, calls[p].userId)
         /\ lastEvent.kind = "call" /\ lastEvent.p = p
         /\ calls[p].op = "load"
         /\ lastEvent.age.has
         /\ lastEvent.age.val < CACHE_DURATION)
        => ReturnedFromCache(p, <<>>)

C22_Witness ==
    /\ ColdEmptyLoad("c1", calls["c2"].userId)
    /\ lastEvent.kind = "call" /\ lastEvent.p = "c2"
    /\ calls["c2"].op = "load"
    /\ lastEvent.age = Some(TickMs)
    /\ lastEvent.cached = Some(<<>>)
    /\ ReturnedFromCache("c2", <<>>)

\* this step is the resolution of the DataStore.get of the mapping awaited by
\* caller p's load
MappingReadResolves(p) ==
    /\ calls[p].op = "load"
    /\ calls[p].pc = "l_get"
    /\ calls'[p].pc # "l_get"
    /\ lastEvent'.kind # "loadFailed"

\* C23: when the consolidated mapping holds a non-empty entry for the id, a
\* cold load ends with the resolution of its single read of the mapping: it
\* returns that entry, awaits no legacy read, write or delete, and leaves the
\* store as it was.
C23_EntryPresentNoMigration ==
    [][\A p \in Callers :
          LET userId == calls[p].userId
              entry == EntryOr(GetGlobal(dataStore), userId)
          IN  (MappingReadResolves(p) /\ Len(entry) > 0)
              => /\ calls'[p].pc = "done"
                 /\ calls'[p].outcome = "returned"
                 /\ Deref(heap', calls'[p].result) = entry
                 /\ dataStore' = dataStore]_vars

C23_Witness ==
    \E p \in Callers :
        LET userId == calls[p].userId
        IN  /\ ColdLoadDone(p)
            /\ calls[p].outcome = "returned"
            /\ Len(EntryOr(GetGlobal(lastEvent.store), userId)) > 0
            /\ lastEvent.store[LegacyKey(userId)].has
            /\ Deref(heap, calls[p].result)
                   = EntryOr(GetGlobal(lastEvent.store), userId)
            /\ dataStore = lastEvent.store

\* C24: the legacy transition is one-way: a legacy key that is absent from the
\* store (never written, or deleted by a migration) is absent after every
\* further step of any load or save.
C24_LegacyKeyStaysAbsent ==
    [][\A userId \in UserIds :
          ~dataStore[LegacyKey(userId)].has
              => ~dataStore'[LegacyKey(userId)].has]_vars

\* a load has migrated and deleted the legacy records of an id, and a save of
\* the same id has been written after it
C24_Witness ==
    \E p, q \in Callers :
        /\ calls[p].op = "load" /\ calls[p].pc = "done" /\ calls[p].io
        /\ Deref(heap, calls[p].result) \in LegacyInputs
        /\ calls[q].op = "save" /\ calls[q].pc = "done"
        /\ calls[q].userId = calls[p].userId
        /\ lastEvent.kind = "saved" /\ lastEvent.p = q
        /\ GetGlobal(dataStore)[calls[p].userId] = Some(lastEvent.vals)
        /\ ~dataStore[LegacyKey(calls[p].userId)].has

-----------------------------------------------------------------------------
(* The badge manager of the settings-backed revision (BadgeManager, lines    *)
(* 54-146): its list is the badges setting, its rows are addressed by id     *)

MaxManagerEvents == 4
MaxManagerMs == 2

\* values typed into the name, emoji and icon inputs of a row
ManagerValues(field) ==
    IF field = "icon" THEN EditValues("url") ELSE EditValues(field)

\* useState(settings.store.badges || []) over the default settings
InitManager ==
    /\ Init
    /\ ~dataStore[LegacyKey(LocalUser)].has

\* addBadge, lines 62-70: id: Date.now().toString(); updateBadges sets the
\* component state and the setting to the same list
ManagerAdd ==
    /\ nui < MaxManagerEvents
    /\ Len(settings.badges) < MaxLen
    /\ settings' = [settings EXCEPT
                      !.badges = Append(@, SettingsBadge(ToString(now), "", <<>>, ""))]
    /\ nui' = nui + 1
    /\ lastEvent' = [kind |-> "addBadge"]
    /\ UNCHANGED <<currentUser, now, dataStore, badgeCache, cacheTimestamps, heap,
                   userBadges, calls, ncalls, badges, loading, saveMessage,
                   hasUnsavedChanges, mounted, timers>>

\* removeBadge(badge.id) of the row at index, lines 72-74:
\* badges.filter(badge => badge.id !== id)
ManagerRemove(index) ==
    /\ nui < MaxManagerEvents
    /\ index \in 1..Len(settings.badges)
    /\ LET id == settings.badges[index].id
       IN  settings' = [settings EXCEPT
                          !.badges = SelectSeq(@, LAMBDA badge : badge.id # id)]
    /\ nui' = nui + 1
    /\ lastEvent' = [kind |-> "removeBadge", index |-> index]
    /\ UNCHANGED <<currentUser, now, dataStore, badgeCache, cacheTimestamps, heap,
                   userBadges, calls, ncalls, badges, loading, saveMessage,
                   hasUnsavedChanges, mounted, timers>>

\* updateBadge(badge.id, field, value) of the row at index, lines 76-80:
\* badges.map(badge => badge.id === id ? { ...badge, [field]: value } : badge)
ManagerUpdate(index, field, value) ==
    /\ nui < MaxManagerEvents
    /\ index \in 1..Len(settings.badges)
    /\ LET id == settings.badges[index].id
       IN  settings' = [settings EXCEPT
                          !.badges = [i \in 1..Len(@) |->
                                        IF @[i].id = id
                                        THEN [@[i] EXCEPT ![field] = value]
                                        ELSE @[i]]]
    /\ nui' = nui + 1
    /\ lastEvent' = [kind |-> "updateBadge", index |-> index, field |-> field,
                     value |-> value]
    /\ UNCHANGED <<currentUser, now, dataStore, badgeCache, cacheTimestamps, heap,
                   userBadges, calls, ncalls, badges, loading, saveMessage,
                   hasUnsavedChanges, mounted, timers>>

\* a millisecond passes: Date.now() returns the next value
ManagerClock ==
    /\ now < StartTime + MaxManagerMs
    /\ now' = now + 1
    /\ UNCHANGED <<currentUser, settings, dataStore, badgeCache, cacheTimestamps, heap,
                   userBadges, calls, ncalls, badges, loading, saveMessage,
                   hasUnsavedChanges, mounted, timers, nui, lastEvent>>

NextManager ==
    \/ ManagerAdd
    \/ \E i \in 1..MaxLen : ManagerRemove(i)
    \/ \E i \in 1..MaxLen, f \in {"name", "emoji", "icon"} :
          \E v \in ManagerValues(f) : ManagerUpdate(i, f, v)
    \/ ManagerClock

SpecManager == InitManager /\ [][NextManager]_vars

\* C25: in the badge manager a remove event deletes exactly the row it was
\* clicked on and an edit event changes exactly the edited field of the edited
\* row; every other row is unchanged and keeps its relative order.
C25_IndependentControl ==
    [][(nui' = nui + 1 /\ lastEvent'.kind \in {"removeBadge", "updateBadge"})
       => LET old == settings.badges
              new == settings'.badges
              e == lastEvent'
          IN  IF e.kind = "removeBadge"
              THEN new = RemoveAt(old, e.index)
              ELSE new = [old EXCEPT ![e.index][e.field] = e.value]]_vars

-----------------------------------------------------------------------------
(* Properties of the defaults (SpecEditor) *)

\* this step is the resolution of the DataStore.set of the save of the default
\* badges issued by start() (line 622) or by loadBadges (line 389)
DefaultsWritten(p) ==
    /\ calls[p].op = "save"
    /\ calls[p].pc = "s_set"
    /\ lastEvent'.kind = "saved"
    /\ lastEvent'.p = p

\* the store holds a record set for userId: an entry of the consolidated
\* mapping (empty or not) or a non-empty list under the legacy key
HasPersisted(userId) ==
    \/ GetGlobal(dataStore)[userId].has
    \/ /\ dataStore[LegacyKey(userId)].has
       /\ Len(dataStore[LegacyKey(userId)].val) > 0

\* C26: plugin start and editor mount write the default badges only for an id
\* with nothing stored: when the store holds a record set for the current user,
\* the write of the defaults leaves that record set as it was.
C26_DefaultsOnlyWhenNothingStored ==
    [][\A p \in {"start", "mount"} :
          (DefaultsWritten(p) /\ HasPersisted(LocalUser))
              => StoredRecords(LocalUser)' = StoredRecords(LocalUser)]_vars

-----------------------------------------------------------------------------
(* Properties of a load that overlaps a save (Spec) *)

\* loadUserBadges(userId) of caller p and saveUserBadges(userId, R) of caller q
\* are the only invocations, both have returned, and no time has passed
LoadAndSaveDone(p, q) ==
    /\ NoSlotReused
    /\ ncalls = 2
    /\ now = StartTime
    /\ calls[p].op = "load" /\ calls[p].pc = "done" /\ calls[p].io
    /\ calls[q].op = "save" /\ calls[q].pc = "done"
    /\ calls[q].outcome = "returned"
    /\ calls[q].userId = calls[p].userId

\* C27: once a load of an id and a save(id, R) that overlapped it have both
\* completed, the cache entry of the id holds R.
C27_LoadKeepsSavedCache ==
    \A p, q \in Callers :
        LoadAndSaveDone(p, q)
            => CacheVals(calls[q].userId) = Some(Deref(heap, calls[q].badges))

====
